---- MODULE Spec2Model ----
(***************************************************************************)
(* Pocketflow-SDK socket core: connectSocket and runWorkflow.              *)
(*                                                                         *)
(* The repository carries two revisions of each function.  connectSocket:  *)
(* src/src/socket/connect.ts ("connect_ts") and src/unnamed/part_012       *)
(* ("part_012").  runWorkflow: src/src/socket/workflow.ts:258              *)
(* ("workflow_ts") and src/unnamed/part_013:252 ("part_013").  A build     *)
(* links one revision of each; Init chooses the pair.  Both runWorkflow    *)
(* files also carry an older revision (workflow.ts:609, which returns a    *)
(* cleanup function, and part_013:679, which reconnects the socket); the   *)
(* specification OlderSpec links those.                                    *)
(*                                                                         *)
(* One socket is modelled.  The transport (socket.io-client) is the        *)
(* environment: it raises connect, connect_error, disconnect,              *)
(* reconnect_failed and the server's workflow events.                      *)
(***************************************************************************)
EXTENDS Integers, Sequences, FiniteSets, TLC

VARIABLES
  connRev,            \* revision of connectSocket linked into the build
  runRev,             \* revision of runWorkflow linked into the build
  pc,                 \* "idle" before connectSocket is called, then "called"
  socket,             \* the socket.io handle: connected, active, patched, listeners
  promise,            \* the promise returned by connectSocket
  connectionTimeout,  \* TRUE while the setTimeout of connectSocket is armed
  connectionAttempts, \* connect.ts: let connectionAttempts
  connectErrors,      \* number of connect_error events raised by the transport
  connectSeen,        \* a 'connect' signal reached the socket since connectSocket
  runs,               \* number of runWorkflow calls made so far
  lastRun,            \* options of the latest runWorkflow call that registered
  last,               \* what the latest step did (observation, see NoEffect)
  tornAt,             \* value of runs when disconnect() was last called on the returned handle, else -1
  feedback,           \* options.handleFeedback and the promises it returned that are still pending
  cleanups,           \* the cleanup functions runWorkflow (workflow.ts:609) returned: their registeredEvents
  wrapper             \* a generated workflow function (part_014:306-358): its position and its promise

vars == <<connRev, runRev, cleanups, wrapper, pc, socket, promise, connectionTimeout,
          connectionAttempts, connectErrors, connectSeen, runs, lastRun, last,
          tornAt, feedback>>

-----------------------------------------------------------------------------
(* Bounds *)

MaxRuns == 2
MaxConnectErrors == 3
MaxListeners == 2
MaxFaultRuns == 1
MaxPending == 1

-----------------------------------------------------------------------------
(* Program constants *)

maxConnectionAttempts == 3

ConnRevs == {"connect_ts", "part_012"}
RunRevs == {"workflow_ts", "part_013"}

\* The older revision that follows each of them in its file.
OlderRunRevs == {"workflow_ts_609", "part_013_679"}

\* The three event kinds after which part_013 disconnects the socket.
TerminalEvents == {"run_complete", "run_error", "workflow_error"}

\* Keys of the handler profiles.  In workflow.ts the pretty profile has no
\* workflow_received / workflow_error entry; in part_013 the three profiles
\* share one key set, without final_output.
ProfileKeys(rev, profile) ==
  IF rev = "workflow_ts_609"
    \* workflow.ts:444-579 (the generation_* entries are no workflow events)
    THEN {"run_error", "run_warning", "run_complete", "run_start",
          "stream_output", "node_error", "final_output"}
  ELSE IF rev = "part_013_679"
    \* part_013:506-650
    THEN IF profile = "pretty"
           THEN {"run_error", "run_warning", "run_complete", "run_start",
                 "stream_output", "node_error", "final_output"}
           ELSE {"run_error", "run_warning", "run_complete", "run_start",
                 "stream_output", "node_error", "final_output",
                 "workflow_received", "workflow_error"}
  ELSE IF rev = "workflow_ts"
    THEN IF profile = "pretty"
           THEN {"run_error", "run_warning", "run_complete", "run_start",
                 "stream_output", "node_error", "final_output"}
           ELSE {"run_error", "run_warning", "run_complete", "run_start",
                 "stream_output", "node_error", "final_output",
                 "workflow_received", "workflow_error"}
    ELSE {"run_error", "run_warning", "run_complete", "run_start",
          "stream_output", "node_error", "workflow_received", "workflow_error"}

Profiles == {"pretty", "verbose", "quiet"}

\* Event kinds the server can emit in this model; custom_event stands for a
\* kind outside the protocol table.
EventKinds == {"run_error", "run_warning", "run_complete", "run_start",
               "stream_output", "node_error", "final_output",
               "workflow_received", "workflow_error", "custom_event"}

NonTerminalEvents == EventKinds \ TerminalEvents

\* The event kinds the service emits to a run: ServerEmittedEvents.
ProtocolKinds == EventKinds \ {"custom_event"}

\* Reserved socket.io events and the two events connectSocket serves itself.
SystemEvents == {"connect", "connect_error", "disconnect", "reconnect_failed",
                 "workflow_log", "feedback_request"}

Names == EventKinds \cup SystemEvents

\* options.handlers values passed to runWorkflow (the kinds with a function).
OverrideChoices == {{}, {"run_complete"}, {"custom_event"}}

\* An options.handlers table: the keys present, each with a function, null or
\* undefined as its value.
HandlerTable(fns, nulls, undefs) ==
  [k \in fns \cup nulls \cup undefs |->
     IF k \in fns THEN "fn" ELSE IF k \in nulls THEN "null" ELSE "undefined"]

NoHandlers == HandlerTable({}, {}, {})

\* The tables whose entries are all functions (the calls of Spec).
FnTables == {HandlerTable(o, {}, {}) : o \in OverrideChoices}

\* The tables of the specification that exercises registration.
HandlerChoices ==
  FnTables \cup {HandlerTable({"run_error"}, {}, {}),
                 HandlerTable({}, {"run_error"}, {}),
                 HandlerTable({}, {}, {"run_error"}),
                 HandlerTable({"run_complete"}, {"custom_event"}, {})}

\* JavaScript truthiness of handlers[kind].
Truthy(handlers, kind) == kind \in DOMAIN handlers /\ handlers[kind] = "fn"

\* The kinds of a table that carry a function.
Functions(handlers) == {k \in DOMAIN handlers : handlers[k] = "fn"}

\* A method of the socket that throws during runWorkflow, as the mocked
\* sockets of the tests do: removeAllListeners / on for one kind, or emit,
\* which throws an Error or a value that is no Error.
NoFault == [op |-> "none", kind |-> "none"]

FaultKinds == {"run_complete", "custom_event"}

ThrownValues == {"Error", "string"}

Faults ==
  {NoFault}
    \cup [op : {"emit"}, kind : ThrownValues]
    \cup [op : {"removeAllListeners", "on"}, kind : FaultKinds]

\* options.eventHandlers values passed to connectSocket.
EventHandlerChoices == {{}, {"run_complete"}}

Outcomes == {"returns", "throws"}

ConnectErrorMessages == {"authentication", "timeout", "xhr poll error"}

DisconnectReasons == {"io server disconnect", "transport close"}

\* The url argument of connectSocket; "undefined" stands for a call without it.
UrlArgs == {"undefined", "api.pocketflow.ai", "example.com",
            "http://example.com", "https://example.com", "localhost:3000",
            "http:/example.com", "https.example.com", "HTTP://example.com",
            "ws://example.com", "", "invalid:url"}

\* The input argument of runWorkflow: the falsy values of JavaScript, a
\* string, an empty object and the object of the tests.
InputValues == {"undefined", "null", "0", "''", "false", "'text'", "{}",
                "{testParam}"}

Falsy == {"undefined", "null", "0", "''", "false"}

\* options.handleFeedback: absent (the default handler) or the caller's own.
FeedbackHandlers == {"defaultFeedbackRequestHandler", "custom"}

\* What a caller's feedback callback does with one request.
FeedbackBehaviours == {"value", "promise", "throws"}

\* The values a feedback callback returns or its promise resolves to, and the
\* line the user types for the default handler; "" is the empty string.
FeedbackValues == {"", "yes"}

\* data.defaultValue of a feedback_request.
DefaultValues == {"", "dflt"}

-----------------------------------------------------------------------------
(* Listener tables *)

NoListeners == [n \in Names |-> << >>]

\* A listener: id names the callback it runs, run is the runWorkflow call that
\* registered it (0: connectSocket), wrapped says whether the call sits in
\* try/catch, term whether safeDisconnect runs in its finally block.
Listener(id, run, wrapped, term) ==
  [id |-> id, run |-> run, wrapped |-> wrapped, term |-> term]

on(ls, event, l) == [ls EXCEPT ![event] = Append(@, l)]

removeNoListeners(ls, event) == ls

removeAllListeners(ls, event) == [ls EXCEPT ![event] = << >>]

\* Emitter.off(event) without a listener argument: every listener of the event.
off(ls, event) == [ls EXCEPT ![event] = << >>]

RECURSIVE OffEach(_, _)
OffEach(ls, events) ==
  IF events = {} THEN ls
  ELSE LET e == CHOOSE x \in events : TRUE
       IN OffEach(off(ls, e), events \ {e})

HasListener(ls, event, id) == \E i \in 1..Len(ls[event]) : ls[event][i].id = id

-----------------------------------------------------------------------------
(* The socket and the effects of one synchronous piece of code on it.  A     *)
(* "world" w carries the socket together with what the code did: the number  *)
(* of socket.disconnect() calls, the callbacks invoked, whether an exception *)
(* escaped to the emitter, the kinds logged by a catch block and the reasons *)
(* handed to handleDisconnection.                                            *)

World(s) == [socket |-> s, disc |-> 0, invoked |-> << >>, leaked |-> FALSE,
             logged |-> << >>, hd |-> << >>]

\* The transport emits 'disconnect' to the listeners of the socket.
EmitDisconnect(w, reason) ==
  IF HasListener(w.socket.listeners, "disconnect", "handleDisconnection")
    THEN [w EXCEPT !.hd = Append(@, reason)]
    ELSE w

\* socket.io's own Socket.disconnect(): closes the transport and, when the
\* socket was connected, emits 'disconnect' with reason "io client disconnect".
originalDisconnect(w) ==
  IF w.socket.connected
    THEN EmitDisconnect([w EXCEPT !.socket.connected = FALSE,
                                  !.socket.active = FALSE],
                        "io client disconnect")
    ELSE [w EXCEPT !.socket.active = FALSE]

\* The disconnect method part_012 installs on the handle it returns.
patchedDisconnect(w) ==
  originalDisconnect([w EXCEPT !.socket.listeners = NoListeners])

\* A call of socket.disconnect(): whichever method the handle carries.
disconnect(w) ==
  LET c == [w EXCEPT !.disc = @ + 1]
  IN IF w.socket.patched THEN patchedDisconnect(c) ELSE originalDisconnect(c)

safeDisconnect(w) == IF w.socket.connected THEN disconnect(w) ELSE w

\* One listener of a workflow event runs: its callback returns or throws.
InvokeListener(w, l, kind, out) ==
  LET called == [w EXCEPT !.invoked =
                     Append(@, [id |-> l.id, run |-> l.run, out |-> out])]
      after == IF out = "throws"
                 THEN IF l.wrapped
                        THEN [called EXCEPT !.logged = Append(@, kind)]
                        ELSE [called EXCEPT !.leaked = TRUE]
                 ELSE called
  IN IF l.term THEN safeDisconnect(after) ELSE after

\* Emitter.emit: the listeners registered when the event arrives run in
\* order; an exception that escapes one of them ends the loop.
RECURSIVE EmitFrom(_, _, _, _, _)
EmitFrom(snapshot, i, outs, w, kind) ==
  IF i > Len(snapshot) \/ w.leaked THEN w
  ELSE EmitFrom(snapshot, i + 1, outs,
                InvokeListener(w, snapshot[i], kind, outs[i]), kind)

Emit(s, kind, outs) == EmitFrom(s.listeners[kind], 1, outs, World(s), kind)

-----------------------------------------------------------------------------
(* The promise returned by connectSocket *)

Pending == [state |-> "pending", reason |-> "none", cause |-> "none"]

resolve(p) == IF p.state = "pending" THEN [p EXCEPT !.state = "resolved"] ELSE p

reject(p, reason, cause) ==
  IF p.state = "pending"
    THEN [state |-> "rejected", reason |-> reason, cause |-> cause]
    ELSE p

\* The state the callbacks of connectSocket close over.
ConnState(p, t, a) == [promise |-> p, timeout |-> t, attempts |-> a]

\* connect.ts: the 'connect' listener.
handleSuccessfulConnection(c) ==
  [c EXCEPT !.timeout = FALSE, !.promise = resolve(@)]

onConnectErrorCountsOnly(c, msg) ==
  LET counted == [c EXCEPT !.attempts = @ + 1]
  IN IF counted.attempts >= maxConnectionAttempts
       THEN [counted EXCEPT !.timeout = FALSE,
                            !.promise = reject(@, "attempts", msg)]
       ELSE counted

\* connect.ts: the 'connect_error' listener.
onConnectError(c, msg) ==
  LET counted == [c EXCEPT !.attempts = @ + 1]
      auth == IF msg = "authentication"
                THEN [counted EXCEPT !.timeout = FALSE,
                                     !.promise = reject(@, "authentication", "none")]
                ELSE counted
  IN IF auth.attempts >= maxConnectionAttempts
       THEN [auth EXCEPT !.timeout = FALSE,
                         !.promise = reject(@, "attempts", msg)]
       ELSE auth

\* connect.ts: the 'reconnect_failed' listener.
onReconnectFailed(c) ==
  [c EXCEPT !.timeout = FALSE, !.promise = reject(@, "reconnect_failed", "none")]

onConnectionTimeoutNoReject(c) == [c EXCEPT !.timeout = FALSE]

\* Both revisions: the setTimeout callback.
onConnectionTimeout(c) ==
  [c EXCEPT !.timeout = FALSE, !.promise = reject(@, "timeout", "none")]

\* part_012: socket.once("connect", ...) inside the awaited promise.
onceConnect(c) == [c EXCEPT !.timeout = FALSE, !.promise = resolve(@)]

\* part_012: socket.once("connect_error", ...) inside the awaited promise.
onceConnectError(c, msg) ==
  [c EXCEPT !.timeout = FALSE, !.promise = reject(@, "transport_error", msg)]

-----------------------------------------------------------------------------
(* Registration *)

RECURSIVE OnEach(_, _, _)
OnEach(ls, events, l) ==
  IF events = {} THEN ls
  ELSE LET e == CHOOSE x \in events : TRUE
       IN OnEach(on(ls, e, l), events \ {e}, l)

\* connect.ts:175-290, the listeners of a socket that is not yet connected.
ConnectTsListeners(eventHandlers) ==
  LET sys == [NoListeners EXCEPT
                !["connect"] = << Listener("handleSuccessfulConnection", 0, FALSE, FALSE) >>,
                !["connect_error"] = << Listener("onConnectError", 0, FALSE, FALSE) >>,
                !["disconnect"] = << Listener("handleDisconnection", 0, FALSE, FALSE) >>,
                !["reconnect_failed"] = << Listener("onReconnectFailed", 0, FALSE, FALSE) >>,
                !["workflow_log"] = << Listener("handleLog", 0, FALSE, FALSE) >>,
                !["feedback_request"] = << Listener("handleFeedback", 0, FALSE, FALSE) >>]
  IN OnEach(sys, eventHandlers, Listener("eventHandlers", 0, FALSE, FALSE))

\* connect.ts:175-181, the socket already reports connected: only the
\* 'connect' listener is attached before the early return.
ConnectTsEarlyListeners ==
  [NoListeners EXCEPT
     !["connect"] = << Listener("handleSuccessfulConnection", 0, FALSE, FALSE) >>]

\* part_012:131-196, the listeners attached before socket.connect().
Part012ListenersAtConnect(eventHandlers) ==
  LET sys == [NoListeners EXCEPT
                !["connect"] = << Listener("handleConnection", 0, FALSE, FALSE) >>,
                !["disconnect"] = << Listener("handleDisconnection", 0, FALSE, FALSE) >>,
                !["reconnect_failed"] = << Listener("onReconnectFailed", 0, FALSE, FALSE) >>,
                !["workflow_log"] = << Listener("handleLog", 0, FALSE, FALSE) >>,
                !["stream_output"] = << Listener("handleStreamOutput", 0, FALSE, FALSE) >>,
                !["feedback_request"] = << Listener("handleFeedback", 0, FALSE, FALSE) >>]
  IN OnEach(sys, eventHandlers, Listener("eventHandlers", 0, FALSE, FALSE))

\* part_012:131-218: those and the two once-listeners of the awaited promise.
Part012Listeners(eventHandlers) ==
  LET custom == Part012ListenersAtConnect(eventHandlers)
      awaited == on(custom, "connect", Listener("onceConnect", 0, FALSE, FALSE))
  IN on(awaited, "connect_error", Listener("onceConnectError", 0, FALSE, FALSE))

SelectProfileVerboseFirst(prettyLogs, verbose) ==
  IF verbose THEN "verbose" ELSE IF prettyLogs THEN "pretty" ELSE "quiet"

\* The base profile runWorkflow selects from options.prettyLogs / verbose.
SelectProfile(prettyLogs, verbose) ==
  IF prettyLogs THEN "pretty" ELSE IF verbose THEN "verbose" ELSE "quiet"

ResolvedHandlerProfileOnly(kind, overrides) == "profile"

\* handlers[eventType] || baseHandlers[eventType]
ResolvedHandler(kind, overrides) ==
  IF Truthy(overrides, kind) THEN "override" ELSE "profile"

closesSocketEveryKind(rev, kind) == rev = "part_013"

\* part_013 runs safeDisconnect in the finally block of the three terminal
\* kinds; workflow.ts:258 has no such block.
closesSocket(rev, kind) == rev = "part_013" /\ kind \in TerminalEvents

\* The listener runWorkflow attaches: the resolved handler inside try/catch.
RunListener(rev, n, kind, overrides) ==
  Listener(ResolvedHandler(kind, overrides), n, TRUE, closesSocket(rev, kind))

RegisterKindOnClearedSocket(ls, rev, n, k, overrides, fault, ownRemovalLoop) ==
  on(NoListeners, k, RunListener(rev, n, k, overrides))

\* Registration of one kind.  removeAllListeners(kind) and on(kind, wrapper)
\* share one try block, so a throwing removeAllListeners skips on(); only for
\* the profile kinds of part_013 the removal is a loop of its own
\* (part_013:290-299) and on() runs whether or not the removal threw.
RegisterKind(ls, rev, n, k, overrides, fault, ownRemovalLoop) ==
  LET removeThrows == fault = [op |-> "removeAllListeners", kind |-> k]
      onThrows == fault = [op |-> "on", kind |-> k]
      removed == IF removeThrows THEN ls ELSE removeAllListeners(ls, k)
  IN IF removeThrows /\ ~ownRemovalLoop THEN ls
     ELSE IF onThrows THEN removed
     ELSE on(removed, k, RunListener(rev, n, k, overrides))

\* Registration of every kind of a set.
RECURSIVE ReplaceEach(_, _, _, _, _, _, _)
ReplaceEach(ls, kinds, rev, n, overrides, fault, ownRemovalLoop) ==
  IF kinds = {} THEN ls
  ELSE LET k == CHOOSE x \in kinds : TRUE
       IN ReplaceEach(RegisterKind(ls, rev, n, k, overrides, fault,
                                   ownRemovalLoop),
                      kinds \ {k}, rev, n, overrides, fault, ownRemovalLoop)

\* The kinds runWorkflow registers a listener for: the keys of the selected
\* profile, then the overrides outside the profile that carry a function.
RegisteredKinds(rev, profile, overrides) ==
  ProfileKeys(rev, profile) \cup Functions(overrides)

RegisterHandlersProfileOnly(ls, rev, n, profile, overrides, fault) ==
  ReplaceEach(ls, ProfileKeys(rev, profile), rev, n, overrides, fault,
              rev = "part_013")

\* The listener table after runWorkflow registered: the kinds of the
\* selected profile, then the overrides outside the profile.
RegisterHandlers(ls, rev, n, profile, overrides, fault) ==
  LET keys == ProfileKeys(rev, profile)
  IN ReplaceEach(ReplaceEach(ls, keys, rev, n, overrides, fault,
                             rev = "part_013"),
                 Functions(overrides) \ keys, rev, n, overrides, fault, FALSE)

ValidateWithoutToken(socketNull, workflowId, authToken) ==
  IF socketNull THEN "Socket connection is required to run a workflow"
  ELSE IF workflowId = "" THEN "Workflow ID is required"
  ELSE "none"

\* The parameter checks at the top of runWorkflow: the message of the
\* WorkflowError thrown, or "none".
Validate(socketNull, workflowId, authToken) ==
  IF socketNull THEN "Socket connection is required to run a workflow"
  ELSE IF workflowId = "" THEN "Workflow ID is required"
  ELSE IF authToken = "" THEN "Authentication token is required"
  ELSE "none"

-----------------------------------------------------------------------------
(* Arguments, options and payloads *)

\* String.prototype.startsWith
startsWith(s, prefix) ==
  Len(s) >= Len(prefix) /\ SubSeq(s, 1, Len(prefix)) = prefix

\* url: string = "api.pocketflow.ai"
DefaultUrl(url) == IF url = "undefined" THEN "api.pocketflow.ai" ELSE url

EnsureProtocolHttpsOnly(url) ==
  IF ~startsWith(url, "https://") THEN "https://" \o url ELSE url

\* 'Ensure the URL has a protocol': the url handed to io().
EnsureProtocol(url) ==
  IF ~startsWith(url, "http://") /\ ~startsWith(url, "https://")
    THEN "https://" \o url
    ELSE url

\* The position of the first ch in s, 0 if there is none.
IndexOf(s, ch) ==
  IF \E i \in 1..Len(s) : SubSeq(s, i, i) = ch
    THEN CHOOSE i \in 1..Len(s) :
           /\ SubSeq(s, i, i) = ch
           /\ \A j \in 1..(i - 1) : SubSeq(s, j, j) # ch
    ELSE 0

\* s up to the first ch, all of s if there is none.
Before(s, ch) == IF IndexOf(s, ch) = 0 THEN s ELSE SubSeq(s, 1, IndexOf(s, ch) - 1)

\* s after the first ch, empty if there is none.
After(s, ch) ==
  IF IndexOf(s, ch) = 0 THEN "" ELSE SubSeq(s, IndexOf(s, ch) + 1, Len(s))

Digits == {"0", "1", "2", "3", "4", "5", "6", "7", "8", "9"}

\* new URL(url) returns instead of throwing, for a url that starts with
\* http:// or https://: the host is not empty and the port, if any, is a
\* number.
ValidUrl(url) ==
  LET rest == IF startsWith(url, "https://")
                THEN SubSeq(url, 9, Len(url)) ELSE SubSeq(url, 8, Len(url))
      authority == Before(rest, "/")
      host == Before(authority, ":")
      port == After(authority, ":")
  IN /\ Len(host) > 0
     /\ \A i \in 1..Len(port) : SubSeq(port, i, i) \in Digits

\* socketOptions.autoConnect: true in connect.ts, false in part_012.
autoConnect(rev) == rev = "connect_ts"

\* The events that have a listener when the connection attempt starts: with
\* autoConnect the attempt starts inside io(), before socket.on is reached;
\* part_012 starts it with socket.connect() at line 199.
AttachedAtStart(rev, eventHandlers) ==
  IF autoConnect(rev) THEN {}
  ELSE {e \in Names : Len(Part012ListenersAtConnect(eventHandlers)[e]) > 0}

NoPayload == [flowId |-> "none", token |-> "none", input |-> "none"]

\* const payload = { flowId: workflowId, token: authToken, input: input || {} }
Payload(workflowId, authToken, input) ==
  [flowId |-> workflowId, token |-> authToken,
   input |-> IF input \in Falsy THEN "{}" ELSE input]

\* defaultHandlers.ts: resolve(input || defaultValue || "")
defaultFeedbackRequestHandler(input, defaultValue) ==
  IF input # "" THEN input ELSE IF defaultValue # "" THEN defaultValue ELSE ""

\* socket.emit("feedback_response", { input })
FeedbackResponse(value) == [input |-> value]

\* No feedback callback installed, no promise pending, no listener running.
NoFeedback == [handler |-> "none", pending |-> << >>, running |-> FALSE]

responseThenBlocking(fb, request) ==
  [fb EXCEPT !.pending = Append(@, request), !.running = TRUE]

\* response.then((input) => ...): the continuation is queued on the promise
\* and the feedback_request listener returns.
responseThen(fb, request) ==
  [fb EXCEPT !.pending = Append(@, request), !.running = FALSE]

\* The observation of a connectSocket call.
ConnectStep(rev, url, ioThrows, eventHandlers) ==
  [url |-> url, ioUrl |-> EnsureProtocol(DefaultUrl(url)),
   invalidUrlLogged |-> ~ValidUrl(EnsureProtocol(DefaultUrl(url))),
   ioThrew |-> ioThrows,
   autoConnect |-> autoConnect(rev),
   attached |-> AttachedAtStart(rev, eventHandlers),
   eventHandlers |-> eventHandlers]

\* The observation of a feedback step.
FeedbackStep(outcome, value, defaultValue, response) ==
  [outcome |-> outcome, value |-> value, defaultValue |-> defaultValue,
   response |-> response]

-----------------------------------------------------------------------------
(* Initial state: nothing has been called yet. *)

NoRun == [n |-> 0, profile |-> "none", overrides |-> {}]

NoSocket == [connected |-> FALSE, active |-> FALSE, patched |-> FALSE,
             listeners |-> NoListeners]

\* The observation of one step.  op: "call" (runWorkflow), "dispatch" (a
\* server event reached the socket), "connect_error" (kind holds the message
\* of the transport's error) or "other".  For a call: its arguments,
\* the WorkflowError message thrown and whether run_workflow was emitted.  For a dispatch: the kind, the callbacks invoked
\* with their outcome, the number of socket.disconnect() calls, whether an
\* exception escaped to the transport, the kinds logged, and tornAt before
\* the event.  For a step that ends the connection: the cause and the reasons
\* handed to handleDisconnection.
\* A call also records its options, the socket method that threw during it,
\* the kinds whose registration failure it caught and logged, and the cause
\* wrapped by the WorkflowError it threw and, in sent, its input argument,
\* the payload of the run_workflow it emitted, the kinds that had a
\* listener of the call when it emitted and what the call returned ("void"
\* or "cleanup", a function).
\* op "connectSocket": conn holds the url argument, whether new URL threw
\* on it (which the catch block logs), whether io() threw, the url and the
\* autoConnect option handed to io(), the events with a listener when the
\* connection attempt started and options.eventHandlers.
\* op "feedback" (a feedback_request was delivered or a feedback promise
\* settled): fb holds what the callback or its promise did, with which value,
\* the request's defaultValue and the feedback_response payloads emitted.
\* conn, sent and fb are "none" in the steps of another kind.
NoEffect == [op |-> "other", socketNull |-> FALSE, workflowId |-> "none",
             authToken |-> "none", thrown |-> "none", emitted |-> FALSE, kind |-> "none", invoked |-> << >>,
             disc |-> 0, leaked |-> FALSE, logged |-> << >>, tornAt |-> -1,
             cause |-> "none", hd |-> << >>,
             prettyLogs |-> FALSE, verbose |-> FALSE, handlers |-> NoHandlers,
             fault |-> NoFault, regFailed |-> {}, thrownCause |-> "none",
             conn |-> "none", sent |-> "none", fb |-> "none"]

\* No generated workflow function has been called.
NoWrapper == [pc |-> "none", isInternalSocket |-> FALSE, promise |-> "none",
              run |-> 0, disconnected |-> FALSE]

\* The state before any call, for the runWorkflow revisions and the use of a
\* generated workflow function that a specification considers.
InitWith(runRevs, wrappers) ==
  /\ connRev \in ConnRevs
  /\ runRev \in runRevs
  /\ cleanups = << >>
  /\ wrapper \in wrappers
  /\ pc = "idle"
  /\ socket = NoSocket
  /\ promise = Pending
  /\ connectionTimeout = FALSE
  /\ connectionAttempts = 0
  /\ connectErrors = 0
  /\ connectSeen = FALSE
  /\ runs = 0
  /\ lastRun = NoRun
  /\ last = NoEffect
  /\ tornAt = -1
  /\ feedback = NoFeedback

Init == InitWith(RunRevs, {NoWrapper})

-----------------------------------------------------------------------------
(* connectSocket *)

\* connect.ts:59-294.
connectSocket(url, ioThrows, connectedAtCreation, eventHandlers, handleFeedback) ==
  /\ pc = "idle"
  /\ connRev = "connect_ts"
  /\ pc' = "called"
  /\ IF ioThrows
       THEN /\ promise' = reject(Pending, "io", "none")
            /\ UNCHANGED <<socket, connectionTimeout, connectSeen, feedback>>
       ELSE IF connectedAtCreation
         THEN LET c == handleSuccessfulConnection(ConnState(Pending, TRUE, 0))
              IN /\ socket' = [connected |-> TRUE, active |-> TRUE,
                               patched |-> FALSE,
                               listeners |-> ConnectTsEarlyListeners]
                 /\ promise' = c.promise
                 /\ connectionTimeout' = c.timeout
                 /\ connectSeen' = TRUE
                 /\ feedback' = [NoFeedback EXCEPT !.handler = handleFeedback]
         ELSE /\ socket' = [connected |-> FALSE, active |-> TRUE,
                            patched |-> FALSE,
                            listeners |-> ConnectTsListeners(eventHandlers)]
              /\ promise' = Pending
              /\ connectionTimeout' = TRUE
              /\ feedback' = [NoFeedback EXCEPT !.handler = handleFeedback]
              /\ UNCHANGED connectSeen
  /\ last' = [NoEffect EXCEPT
                 !.op = "connectSocket",
                 !.conn = ConnectStep("connect_ts", url, ioThrows, eventHandlers)]
  /\ UNCHANGED <<lastRun, cleanups, wrapper, connRev, runRev, connectionAttempts, connectErrors, runs,
                 tornAt>>

\* part_012:66-235, up to the await.
connectSocketAwait(url, ioThrows, eventHandlers, handleFeedback) ==
  /\ pc = "idle"
  /\ connRev = "part_012"
  /\ pc' = "called"
  /\ IF ioThrows
       THEN /\ promise' = reject(Pending, "io", "none")
            /\ UNCHANGED <<socket, connectionTimeout, feedback>>
       ELSE /\ socket' = [connected |-> FALSE, active |-> TRUE,
                          patched |-> FALSE,
                          listeners |-> Part012Listeners(eventHandlers)]
            /\ promise' = Pending
            /\ connectionTimeout' = TRUE
            /\ feedback' = [NoFeedback EXCEPT !.handler = handleFeedback]
  /\ last' = [NoEffect EXCEPT
                 !.op = "connectSocket",
                 !.conn = ConnectStep("part_012", url, ioThrows, eventHandlers)]
  /\ UNCHANGED <<lastRun, cleanups, wrapper, connRev, runRev, connectionAttempts, connectErrors,
                 connectSeen, runs, tornAt>>

WithoutListener(ls, event, id) ==
  [ls EXCEPT ![event] = SelectSeq(@, LAMBDA l : l.id # id)]

\* The transport reports 'connect'.
TransportConnect ==
  /\ pc = "called"
  /\ socket.active
  /\ ~socket.connected
  /\ LET ls == socket.listeners
         c0 == ConnState(promise, connectionTimeout, connectionAttempts)
         c1 == IF HasListener(ls, "connect", "handleSuccessfulConnection")
                 THEN handleSuccessfulConnection(c0) ELSE c0
         once == HasListener(ls, "connect", "onceConnect")
         c2 == IF once THEN onceConnect(c1) ELSE c1
         \* part_012:221-232 runs when the awaited promise resolves
         patchNow == once /\ promise.state = "pending"
     IN /\ socket' = [socket EXCEPT
                        !.connected = TRUE,
                        !.patched = @ \/ patchNow,
                        !.listeners = WithoutListener(@, "connect", "onceConnect")]
        /\ promise' = c2.promise
        /\ connectionTimeout' = c2.timeout
  /\ connectSeen' = TRUE
  /\ last' = NoEffect
  /\ UNCHANGED <<feedback, lastRun, cleanups, wrapper, connRev, runRev, pc, connectionAttempts, connectErrors, runs,
                 tornAt>>

\* The transport reports 'connect_error' while connectSocket is waiting; with
\* reconnection enabled it keeps trying afterwards.  Once the promise has
\* settled a connect_error changes nothing but connectionAttempts, which is
\* then no longer read.
TransportConnectError(msg) ==
  /\ pc = "called"
  /\ socket.active
  /\ ~socket.connected
  /\ promise.state = "pending"
  /\ connectErrors < MaxConnectErrors
  /\ connectErrors' = connectErrors + 1
  /\ LET ls == socket.listeners
         c0 == ConnState(promise, connectionTimeout, connectionAttempts)
         c1 == IF HasListener(ls, "connect_error", "onConnectError")
                 THEN onConnectError(c0, msg) ELSE c0
         c2 == IF HasListener(ls, "connect_error", "onceConnectError")
                 THEN onceConnectError(c1, msg) ELSE c1
     IN /\ socket' = [socket EXCEPT !.listeners =
                        WithoutListener(@, "connect_error", "onceConnectError")]
        /\ promise' = c2.promise
        /\ connectionTimeout' = c2.timeout
        /\ connectionAttempts' = c2.attempts
  /\ last' = [NoEffect EXCEPT !.op = "connect_error", !.kind = msg]
  /\ UNCHANGED <<feedback, lastRun, cleanups, wrapper, connRev, runRev, pc, connectSeen, runs, tornAt>>

\* The transport gives up reconnecting and reports 'reconnect_failed'.
TransportReconnectFailed ==
  /\ pc = "called"
  /\ socket.active
  /\ ~socket.connected
  /\ promise.state = "pending" => connectErrors >= 1
  /\ LET closed == [socket EXCEPT !.active = FALSE]
         listening == HasListener(socket.listeners, "reconnect_failed",
                                  "onReconnectFailed")
         c0 == ConnState(promise, connectionTimeout, connectionAttempts)
     IN IF listening /\ connRev = "connect_ts"
          THEN /\ promise' = onReconnectFailed(c0).promise
               /\ connectionTimeout' = onReconnectFailed(c0).timeout
               /\ socket' = closed
               /\ UNCHANGED tornAt
          ELSE IF listening
            \* part_012:151-160 calls socket.disconnect()
            THEN /\ socket' = disconnect(World(closed)).socket
                 /\ tornAt' = IF promise.state = "resolved" THEN runs ELSE tornAt
                 /\ UNCHANGED <<promise, connectionTimeout>>
            ELSE /\ socket' = closed
                 /\ UNCHANGED <<promise, connectionTimeout, tornAt>>
  /\ last' = [NoEffect EXCEPT
               !.op = "reconnect_failed",
               !.disc = IF connRev = "part_012"
                             /\ HasListener(socket.listeners, "reconnect_failed",
                                            "onReconnectFailed")
                          THEN 1 ELSE 0]
  /\ UNCHANGED <<feedback, lastRun, cleanups, wrapper, connRev, runRev, pc, connectionAttempts, connectErrors,
                 connectSeen, runs>>

\* The setTimeout callback of connectSocket fires.
ConnectionTimeout ==
  /\ connectionTimeout
  /\ LET c == onConnectionTimeout(ConnState(promise, connectionTimeout,
                                            connectionAttempts))
     IN /\ promise' = c.promise
        /\ connectionTimeout' = c.timeout
  /\ last' = NoEffect
  /\ UNCHANGED <<feedback, lastRun, cleanups, wrapper, connRev, runRev, pc, socket, connectionAttempts,
                 connectErrors, connectSeen, runs, tornAt>>

\* The server or the network ends the connection; after "transport close"
\* the transport reconnects by itself, after "io server disconnect" it does not.
TransportDisconnect(reason) ==
  /\ socket.connected
  /\ LET w == EmitDisconnect(World([socket EXCEPT
                                      !.connected = FALSE,
                                      !.active = (reason = "transport close")]),
                             reason)
     IN /\ socket' = w.socket
        /\ last' = [NoEffect EXCEPT !.cause = reason, !.hd = w.hd]
  /\ UNCHANGED <<feedback, lastRun, cleanups, wrapper, connRev, runRev, pc, promise, connectionTimeout,
                 connectionAttempts, connectErrors, connectSeen, runs, tornAt>>

\* The caller calls disconnect() on the handle connectSocket returned.
CallerDisconnect ==
  /\ promise.state = "resolved"
  /\ LET w == disconnect(World(socket))
     IN /\ socket' = w.socket
        /\ last' = IF socket.connected
                     THEN [NoEffect EXCEPT !.op = "disconnect",
                                           !.cause = "io client disconnect",
                                           !.disc = w.disc, !.hd = w.hd]
                     ELSE [NoEffect EXCEPT !.op = "disconnect",
                                           !.disc = w.disc]
  /\ tornAt' = runs
  /\ UNCHANGED <<feedback, lastRun, cleanups, wrapper, connRev, runRev, pc, promise, connectionTimeout,
                 connectionAttempts, connectErrors, connectSeen, runs>>

\* The caller reuses a closed handle: socket.connect().
CallerConnect ==
  /\ promise.state = "resolved"
  /\ ~socket.active
  /\ ~socket.connected
  /\ socket' = [socket EXCEPT !.active = TRUE]
  /\ last' = NoEffect
  /\ UNCHANGED <<feedback, lastRun, cleanups, wrapper, connRev, runRev, pc, promise, connectionTimeout,
                 connectionAttempts, connectErrors, connectSeen, runs, tornAt>>

-----------------------------------------------------------------------------
(* runWorkflow *)

RegistrationFailureEscapes(fault) == FALSE

\* The try/catch around removeAllListeners + on of one kind: a failure of
\* either is caught and logged there.
RegistrationFailureCaught(fault) ==
  fault.op \in {"removeAllListeners", "on"}

EmitFailureHandlerResolved(handlers) == ResolvedHandler("run_error", handlers)

\* The handler the outer catch block invokes: if (handlers.run_error).
EmitFailureHandler(handlers) ==
  IF Truthy(handlers, "run_error") THEN "override" ELSE "none"

WrappedCauseDropped(thrownValue) == "none"

\* The cause of the WorkflowError: error instanceof Error ? error : undefined.
WrappedCause(thrownValue) ==
  IF thrownValue = "Error" THEN "emit error" ELSE "none"

ListenersAtEmitUnregistered(before, registered) == before

\* The listener table when socket.emit("run_workflow", ...) executes, given
\* the table before the call and the table the two registration loops leave:
\* the loops precede the emit in the try block.
ListenersAtEmit(before, registered) == registered

\* The events that have a listener registered by call n.
ListeningFor(ls, n) ==
  {k \in Names : \E i \in 1..Len(ls[k]) : ls[k][i].run = n}

\* The body shared by the two revisions; they differ in the profile tables,
\* in the removal loop and in the finally block of the terminal kinds
\* (closesSocket).  fault is the socket method that throws during the call,
\* errOut the outcome of a run_error override invoked by the catch block.
RunWorkflowCall(rev, socketNull, workflowId, authToken, input, prettyLogs, verbose, handlers, fault, errOut) ==
  /\ runs < MaxRuns
  /\ socketNull \/ promise.state = "resolved"
  \* the options are not read by a call that fails validation
  /\ Validate(socketNull, workflowId, authToken) # "none"
       => (~prettyLogs /\ ~verbose /\ handlers = NoHandlers /\ fault = NoFault)
  \* a method throws only if the call reaches it
  /\ fault.op \in {"removeAllListeners", "on"}
       => fault.kind \in RegisteredKinds(rev, SelectProfile(prettyLogs, verbose),
                                         handlers)
  /\ errOut = "throws"
       => /\ Validate(socketNull, workflowId, authToken) = "none"
          /\ fault.op = "emit"
          /\ Truthy(handlers, "run_error")
  /\ runs' = runs + 1
  /\ LET thrown == Validate(socketNull, workflowId, authToken)
         profile == SelectProfile(prettyLogs, verbose)
         call == [NoEffect EXCEPT !.op = "call", !.socketNull = socketNull,
                                  !.workflowId = workflowId,
                                  !.authToken = authToken,
                                  !.sent = [input |-> input,
                                            payload |-> NoPayload,
                                            atEmit |-> {},
                                            returned |-> "void"],
                                  !.prettyLogs = prettyLogs,
                                  !.verbose = verbose,
                                  !.handlers = handlers,
                                  !.fault = fault]
         table == RegisterHandlers(socket.listeners, rev, runs + 1, profile,
                                   handlers, fault)
         registered == [call EXCEPT !.regFailed =
                          IF RegistrationFailureCaught(fault)
                            THEN {fault.kind} ELSE {}]
         \* the statement that threw into the outer catch block, if any
         escaped == fault.op = "emit"
                      \/ (fault.op \in {"removeAllListeners", "on"}
                            /\ ~RegistrationFailureCaught(fault))
     IN IF thrown # "none"
          THEN /\ last' = [call EXCEPT !.thrown = thrown]
               /\ UNCHANGED <<socket, lastRun>>
          ELSE /\ socket' = [socket EXCEPT !.listeners = table]
               /\ lastRun' = [n |-> runs + 1, profile |-> profile,
                              overrides |-> Functions(handlers)]
               /\ last' =
                    IF ~escaped
                      THEN [registered EXCEPT
                              !.emitted = TRUE,
                              !.sent.payload =
                                 Payload(workflowId, authToken, input),
                              !.sent.atEmit =
                                 ListeningFor(ListenersAtEmit(socket.listeners,
                                                              table),
                                              runs + 1)]
                    \* catch (error): if (handlers.run_error) ... else throw
                    ELSE IF EmitFailureHandler(handlers) # "none"
                      THEN [registered EXCEPT
                              !.invoked = << [id |-> EmitFailureHandler(handlers),
                                              run |-> runs + 1,
                                              out |-> errOut] >>,
                              !.thrown = IF errOut = "throws"
                                           THEN "handler error" ELSE "none"]
                      ELSE [registered EXCEPT
                              !.thrown = "Failed to start workflow execution",
                              !.thrownCause = WrappedCause(fault.kind)]
  /\ UNCHANGED <<feedback, cleanups, wrapper, connRev, runRev, pc, promise, connectionTimeout,
                 connectionAttempts, connectErrors, connectSeen, tornAt>>

\* workflow.ts:258-393.
runWorkflow(socketNull, workflowId, authToken, input, prettyLogs, verbose, handlers, fault, errOut) ==
  /\ runRev = "workflow_ts"
  /\ RunWorkflowCall("workflow_ts", socketNull, workflowId, authToken, input,
                     prettyLogs, verbose, handlers, fault, errOut)

\* part_013:252-451.
runWorkflowSafeDisconnect(socketNull, workflowId, authToken, input, prettyLogs, verbose, handlers, fault, errOut) ==
  /\ runRev = "part_013"
  /\ RunWorkflowCall("part_013", socketNull, workflowId, authToken, input,
                     prettyLogs, verbose, handlers, fault, errOut)

\* The handlers a generated workflow function passes to runWorkflow
\* (part_014:340-347): run_complete resolves its promise, run_error rejects it.
WrapperHandlers == HandlerTable({"run_complete", "run_error"}, {}, {})

\* The promise of a generated workflow function after a dispatch that invoked
\* the callbacks in invoked.
WrapperAfterDispatch(wr, kind, invoked) ==
  IF /\ wr.promise = "pending"
     /\ kind \in DOMAIN WrapperHandlers
     /\ \E i \in 1..Len(invoked) :
          /\ invoked[i].run = wr.run
          /\ invoked[i].id = "override"
          /\ invoked[i].out = "returns"
    THEN [wr EXCEPT !.promise = IF kind = "run_complete"
                                  THEN "resolved" ELSE "rejected"]
    ELSE wr

\* The server emits a workflow event; the transport delivers it to the
\* listeners of a connected socket.  outs gives the outcome of each
\* listener's callback.
ServerEvent(kind, outs) ==
  /\ pc = "called"
  /\ socket.connected
  \* events are dispatched when no listener is on the stack
  /\ ~feedback.running
  /\ Len(socket.listeners[kind]) <= MaxListeners
  /\ LET w == Emit(socket, kind, outs)
     IN /\ socket' = w.socket
        /\ last' = [NoEffect EXCEPT
                      !.op = "dispatch", !.kind = kind, !.invoked = w.invoked,
                      !.disc = w.disc, !.leaked = w.leaked,
                      !.logged = w.logged, !.tornAt = tornAt,
                      !.cause = IF w.socket.connected THEN "none"
                                ELSE "io client disconnect",
                      !.hd = w.hd]
        /\ tornAt' = IF w.disc > 0 THEN runs ELSE tornAt
        /\ wrapper' = WrapperAfterDispatch(wrapper, kind, w.invoked)
  /\ UNCHANGED <<feedback, lastRun, cleanups, connRev, runRev, pc, promise, connectionTimeout,
                 connectionAttempts, connectErrors, connectSeen, runs>>

-----------------------------------------------------------------------------
(* The older revisions of runWorkflow *)

\* The kinds of { ...baseHandlers, ...handlers } whose value is truthy: an
\* override that is null or undefined shadows the profile's entry.
MergedKinds(rev, profile, handlers) ==
  {k \in ProfileKeys(rev, profile) \cup DOMAIN handlers :
     k \in DOMAIN handlers => handlers[k] = "fn"}

\* The observation of a call of an older revision, which validates nothing
\* and sends the input as it is.
OlderCall(workflowId, authToken, input, prettyLogs, handlers, atEmit, returned) ==
  [NoEffect EXCEPT !.op = "call", !.workflowId = workflowId,
                   !.authToken = authToken, !.prettyLogs = prettyLogs,
                   !.verbose = TRUE, !.handlers = handlers, !.emitted = TRUE,
                   !.sent = [input |-> input,
                             payload |-> [flowId |-> workflowId,
                                          token |-> authToken, input |-> input],
                             atEmit |-> atEmit,
                             returned |-> returned]]

\* workflow.ts:609-656: every truthy entry of the merged table is attached
\* with socket.on, without removing anything and without a wrapper; the call
\* returns a function that calls socket.off(event) for each registered event.
runWorkflowCleanup(workflowId, token, input, prettyLogs, handlers) ==
  /\ runRev = "workflow_ts_609"
  /\ runs < MaxRuns
  /\ promise.state = "resolved"
  /\ runs' = runs + 1
  /\ LET profile == IF prettyLogs THEN "pretty" ELSE "default"
         registeredEvents == MergedKinds("workflow_ts_609", profile, handlers)
         overridden == registeredEvents \cap Functions(handlers)
         table == OnEach(OnEach(socket.listeners, overridden,
                                Listener("override", runs + 1, FALSE, FALSE)),
                         registeredEvents \ overridden,
                         Listener("profile", runs + 1, FALSE, FALSE))
     IN /\ socket' = [socket EXCEPT !.listeners = table]
        /\ lastRun' = [n |-> runs + 1, profile |-> profile,
                       overrides |-> Functions(handlers)]
        /\ cleanups' = Append(cleanups, [run |-> runs + 1,
                                         registeredEvents |-> registeredEvents,
                                         called |-> FALSE])
        /\ last' = OlderCall(workflowId, token, input, prettyLogs, handlers,
                             ListeningFor(table, runs + 1), "cleanup")
  /\ UNCHANGED <<feedback, wrapper, connRev, runRev, pc, promise,
                 connectionTimeout, connectionAttempts, connectErrors,
                 connectSeen, tornAt>>

\* The caller calls a cleanup function that runWorkflowCleanup returned.
Cleanup(i) ==
  /\ i \in 1..Len(cleanups)
  /\ socket' = [socket EXCEPT !.listeners =
                  OffEach(@, cleanups[i].registeredEvents)]
  /\ cleanups' = [cleanups EXCEPT ![i].called = TRUE]
  /\ last' = [NoEffect EXCEPT !.op = "cleanup"]
  /\ UNCHANGED <<feedback, lastRun, wrapper, connRev, runRev, pc, promise,
                 connectionTimeout, connectionAttempts, connectErrors,
                 connectSeen, runs, tornAt>>

RECURSIVE RemoveEach(_, _)
RemoveEach(ls, events) ==
  IF events = {} THEN ls
  ELSE LET e == CHOOSE x \in events : TRUE
       IN RemoveEach(removeAllListeners(ls, e), events \ {e})

\* part_013:679-738: a socket that is not connected is told to connect();
\* the listeners of the kinds named in handlers are removed and the overrides
\* attached; the profile's handlers of the other kinds are attached without
\* removing anything; nothing is returned.
runWorkflowReconnect(workflowId, authToken, input, prettyLogs, handlers) ==
  /\ runRev = "part_013_679"
  /\ runs < MaxRuns
  /\ promise.state = "resolved"
  /\ runs' = runs + 1
  /\ LET profile == IF prettyLogs THEN "pretty" ELSE "default"
         removed == RemoveEach(socket.listeners, DOMAIN handlers)
         custom == OnEach(removed, Functions(handlers),
                          Listener("override", runs + 1, FALSE, FALSE))
         table == OnEach(custom,
                         ProfileKeys("part_013_679", profile) \ DOMAIN handlers,
                         Listener("profile", runs + 1, FALSE, FALSE))
     IN /\ socket' = [socket EXCEPT
                        !.active = IF socket.connected THEN @ ELSE TRUE,
                        !.listeners = table]
        /\ lastRun' = [n |-> runs + 1, profile |-> profile,
                       overrides |-> Functions(handlers)]
        /\ last' = OlderCall(workflowId, authToken, input, prettyLogs, handlers,
                             ListeningFor(table, runs + 1), "void")
  /\ UNCHANGED <<feedback, cleanups, wrapper, connRev, runRev, pc, promise,
                 connectionTimeout, connectionAttempts, connectErrors,
                 connectSeen, tornAt>>

-----------------------------------------------------------------------------
(* A generated workflow function (the template of part_014:306-358) *)

\* The function has been called, without a socket argument (it calls
\* connectSocket itself and awaits the handle) or with the caller's handle.
WrapperCalled(isInternalSocket) ==
  [pc |-> "called", isInternalSocket |-> isInternalSocket,
   promise |-> "pending", run |-> 0, disconnected |-> FALSE]

\* The function body from the handle on (part_014:326-357), which runs
\* without a pause: the executor of the returned promise calls runWorkflow
\* with the two handlers and rejects the promise if the call throws; the
\* promise is the operand of return, so the finally block runs next and
\* disconnects a socket the function created.
generatedWorkflow(authToken) ==
  /\ wrapper.pc = "called"
  /\ runRev \in RunRevs
  /\ runs < MaxRuns
  /\ promise.state = "resolved"
  /\ runs' = runs + 1
  /\ LET thrown == Validate(FALSE, "wf1", authToken)
         profile == SelectProfile(FALSE, FALSE)
         table == RegisterHandlers(socket.listeners, runRev, runs + 1, profile,
                                   WrapperHandlers, NoFault)
         ran == IF thrown = "none"
                  THEN [socket EXCEPT !.listeners = table] ELSE socket
         w == IF wrapper.isInternalSocket
                THEN disconnect(World(ran)) ELSE World(ran)
     IN /\ socket' = w.socket
        /\ lastRun' = IF thrown = "none"
                        THEN [n |-> runs + 1, profile |-> profile,
                              overrides |-> Functions(WrapperHandlers)]
                        ELSE lastRun
        /\ tornAt' = IF wrapper.isInternalSocket THEN runs + 1 ELSE tornAt
        /\ wrapper' = [wrapper EXCEPT
                         !.pc = "returned",
                         !.run = runs + 1,
                         !.promise = IF thrown = "none"
                                       THEN "pending" ELSE "rejected",
                         !.disconnected = wrapper.isInternalSocket]
        /\ last' = [NoEffect EXCEPT
                      !.op = "generatedWorkflow",
                      !.authToken = authToken,
                      !.thrown = thrown,
                      !.emitted = (thrown = "none"),
                      !.disc = w.disc,
                      !.hd = w.hd,
                      !.cause = IF w.disc > 0 /\ socket.connected
                                  THEN "io client disconnect" ELSE "none"]
  /\ UNCHANGED <<feedback, cleanups, connRev, runRev, pc, promise,
                 connectionTimeout, connectionAttempts, connectErrors,
                 connectSeen>>

\* await connectSocket(...) throws: the function's promise rejects; the
\* finally block finds no socketInstance to disconnect.
generatedWorkflowConnectFailed ==
  /\ wrapper.pc = "called"
  /\ wrapper.isInternalSocket
  /\ promise.state = "rejected"
  /\ wrapper' = [wrapper EXCEPT !.pc = "returned", !.promise = "rejected"]
  /\ last' = [NoEffect EXCEPT !.op = "generatedWorkflow",
                              !.thrown = "connectSocket rejected"]
  /\ UNCHANGED <<feedback, lastRun, cleanups, connRev, runRev, pc, socket,
                 promise, connectionTimeout, connectionAttempts, connectErrors,
                 connectSeen, runs, tornAt>>

-----------------------------------------------------------------------------
(* feedback_request *)

WithoutIndex(seq, i) == SubSeq(seq, 1, i - 1) \o SubSeq(seq, i + 1, Len(seq))

\* The service asks for feedback: the transport delivers feedback_request to
\* the listener connectSocket attached, which calls handleFeedback(data).
\* The default handler returns a promise; a caller's callback returns a
\* value, returns a promise or throws.
FeedbackRequest(defaultValue, behaviour, value) ==
  /\ pc = "called"
  /\ socket.connected
  /\ ~feedback.running
  /\ feedback.handler = "defaultFeedbackRequestHandler" => behaviour = "promise"
  /\ behaviour = "promise" => Len(feedback.pending) < MaxPending
  /\ behaviour # "value" => value = ""
  /\ LET heard == HasListener(socket.listeners, "feedback_request",
                              "handleFeedback")
         step == [NoEffect EXCEPT !.op = "feedback"]
         request == [defaultValue |-> defaultValue]
     IN IF ~heard
          THEN /\ feedback' = feedback
               /\ last' = [step EXCEPT !.fb =
                             FeedbackStep("unheard", "none", defaultValue, << >>)]
          ELSE IF behaviour = "promise"
            THEN /\ feedback' = responseThen(feedback, request)
                 /\ last' = [step EXCEPT !.fb =
                               FeedbackStep("pending", "none", defaultValue,
                                            << >>)]
          ELSE IF behaviour = "value"
            THEN /\ feedback' = feedback
                 /\ last' = [step EXCEPT !.fb =
                               FeedbackStep("value", value, defaultValue,
                                            << FeedbackResponse(value) >>)]
            \* the listener has no try/catch: the exception reaches the emitter
            ELSE /\ feedback' = feedback
                 /\ last' = [step EXCEPT
                               !.fb = FeedbackStep("throws", "none",
                                                   defaultValue, << >>),
                               !.leaked = TRUE]
  /\ UNCHANGED <<cleanups, wrapper, connRev, runRev, pc, socket, promise, connectionTimeout,
                 connectionAttempts, connectErrors, connectSeen, runs, lastRun,
                 tornAt>>

\* A promise returned by handleFeedback settles.  The default handler's
\* promise resolves with the line the user typed, or the request's
\* defaultValue; it has no reject path.  The continuation given to then()
\* emits feedback_response; no continuation is given for a rejection.
FeedbackSettle(i, outcome, value) ==
  /\ pc = "called"
  /\ i \in 1..Len(feedback.pending)
  /\ feedback.handler = "defaultFeedbackRequestHandler" => outcome = "resolves"
  /\ outcome = "rejects" => value = ""
  /\ LET request == feedback.pending[i]
         resolved == IF feedback.handler = "defaultFeedbackRequestHandler"
                       THEN defaultFeedbackRequestHandler(value,
                                                          request.defaultValue)
                       ELSE value
     IN /\ feedback' = [feedback EXCEPT !.pending = WithoutIndex(@, i),
                                        !.running = FALSE]
        /\ last' = IF outcome = "resolves"
                     THEN [NoEffect EXCEPT
                             !.op = "feedback",
                             !.fb = FeedbackStep("resolves", resolved,
                                                 request.defaultValue,
                                                 << FeedbackResponse(resolved) >>)]
                     ELSE [NoEffect EXCEPT
                             !.op = "feedback",
                             !.fb = FeedbackStep("rejects", "none",
                                                 request.defaultValue, << >>)]
  /\ UNCHANGED <<cleanups, wrapper, connRev, runRev, pc, socket, promise, connectionTimeout,
                 connectionAttempts, connectErrors, connectSeen, runs, lastRun,
                 tornAt>>

-----------------------------------------------------------------------------

\* The arguments of the connectSocket and runWorkflow calls of Spec, whose
\* variety lies in the transport and in the handler tables.
InputOfTests == "{testParam}"

\* The runWorkflow calls of Spec: every argument that fails validation, and
\* for the valid arguments every profile and every table of functions.  A
\* call that fails validation does not read its options.
SpecCalls ==
  {c \in [socketNull : BOOLEAN, workflowId : {"", "wf1"}, authToken : {"", "t"},
          prettyLogs : BOOLEAN, verbose : BOOLEAN, handlers : FnTables] :
     Validate(c.socketNull, c.workflowId, c.authToken) # "none"
       => (~c.prettyLogs /\ ~c.verbose /\ c.handlers = NoHandlers)}

Next ==
  \/ \E u \in UrlArgs, t \in BOOLEAN, c \in BOOLEAN, eh \in EventHandlerChoices :
       connectSocket(u, t, c, eh, "defaultFeedbackRequestHandler")
  \/ \E u \in UrlArgs, t \in BOOLEAN, eh \in EventHandlerChoices :
       connectSocketAwait(u, t, eh, "defaultFeedbackRequestHandler")
  \/ TransportConnect
  \/ \E msg \in ConnectErrorMessages : TransportConnectError(msg)
  \/ TransportReconnectFailed
  \/ ConnectionTimeout
  \/ \E reason \in DisconnectReasons : TransportDisconnect(reason)
  \/ CallerDisconnect
  \/ CallerConnect
  \/ \E c \in SpecCalls :
       runWorkflow(c.socketNull, c.workflowId, c.authToken, InputOfTests,
                   c.prettyLogs, c.verbose, c.handlers, NoFault, "returns")
  \/ \E c \in SpecCalls :
       runWorkflowSafeDisconnect(c.socketNull, c.workflowId, c.authToken,
                                 InputOfTests, c.prettyLogs, c.verbose,
                                 c.handlers, NoFault, "returns")
  \/ \E k \in EventKinds :
       \E outs \in [1..Len(socket.listeners[k]) -> Outcomes] :
         ServerEvent(k, outs)

Spec == Init /\ [][Next]_vars

\* The life of the connection alone: connectSocket, the transport and the
\* caller's use of the handle, without workflow runs.  runWorkflow and the
\* server's workflow events leave promise and connectionTimeout unchanged.
ConnNext ==
  \/ \E u \in UrlArgs, t \in BOOLEAN, c \in BOOLEAN, eh \in EventHandlerChoices :
       connectSocket(u, t, c, eh, "defaultFeedbackRequestHandler")
  \/ \E u \in UrlArgs, t \in BOOLEAN, eh \in EventHandlerChoices :
       connectSocketAwait(u, t, eh, "defaultFeedbackRequestHandler")
  \/ TransportConnect
  \/ \E msg \in ConnectErrorMessages : TransportConnectError(msg)
  \/ TransportReconnectFailed
  \/ ConnectionTimeout
  \/ \E reason \in DisconnectReasons : TransportDisconnect(reason)
  \/ CallerDisconnect
  \/ CallerConnect

\* setTimeout callbacks run once their delay has passed.
FairConnSpec == Init /\ [][ConnNext]_vars /\ WF_vars(ConnectionTimeout)

\* Registration and dispatch on a handle whose methods may throw, with every
\* shape of options.handlers: connectSocket, the first 'connect', at most
\* MaxFaultRuns calls of runWorkflow and the server's workflow events.
RunCalls ==
  {c \in [socketNull : BOOLEAN, workflowId : {"", "wf1"}, authToken : {"", "t"},
          prettyLogs : BOOLEAN, verbose : BOOLEAN, handlers : HandlerChoices,
          fault : Faults, errOut : Outcomes] :
     \* the arguments a call reads, as guarded in RunWorkflowCall
     /\ Validate(c.socketNull, c.workflowId, c.authToken) # "none"
          => (~c.prettyLogs /\ ~c.verbose /\ c.handlers = NoHandlers
              /\ c.fault = NoFault)
     /\ (c.fault.op \in {"removeAllListeners", "on"}
           /\ c.fault.kind = "custom_event")
          => Truthy(c.handlers, "custom_event")
     /\ c.errOut = "throws"
          => /\ Validate(c.socketNull, c.workflowId, c.authToken) = "none"
             /\ c.fault.op = "emit"
             /\ Truthy(c.handlers, "run_error")}

\* workflow.ts:258-393 on a handle whose methods may throw.
runWorkflowFaulty(c) ==
  /\ runs < MaxFaultRuns
  /\ runWorkflow(c.socketNull, c.workflowId, c.authToken, InputOfTests,
                 c.prettyLogs, c.verbose, c.handlers, c.fault, c.errOut)

\* part_013:252-451 on a handle whose methods may throw.
runWorkflowSafeDisconnectFaulty(c) ==
  /\ runs < MaxFaultRuns
  /\ runWorkflowSafeDisconnect(c.socketNull, c.workflowId, c.authToken,
                               InputOfTests, c.prettyLogs, c.verbose,
                               c.handlers, c.fault, c.errOut)

RunNext ==
  \/ \E u \in UrlArgs, t \in BOOLEAN, c \in BOOLEAN, eh \in EventHandlerChoices :
       connectSocket(u, t, c, eh, "defaultFeedbackRequestHandler")
  \/ \E u \in UrlArgs, t \in BOOLEAN, eh \in EventHandlerChoices :
       connectSocketAwait(u, t, eh, "defaultFeedbackRequestHandler")
  \/ TransportConnect
  \/ \E c \in RunCalls : runWorkflowFaulty(c)
  \/ \E c \in RunCalls : runWorkflowSafeDisconnectFaulty(c)
  \/ \E k \in EventKinds :
       \E outs \in [1..Len(socket.listeners[k]) -> Outcomes] :
         ServerEvent(k, outs)

RunSpec == Init /\ [][RunNext]_vars

\* The arguments and the feedback bridge: connectSocket with every url and
\* either feedback handler, the first 'connect', runWorkflow with every input
\* value, the server's workflow events, feedback requests and the settling
\* of the promises the feedback callback returned.
runWorkflowInput(input) ==
  runWorkflow(FALSE, "wf1", "t", input, FALSE, FALSE, NoHandlers, NoFault, "returns")

runWorkflowSafeDisconnectInput(input) ==
  runWorkflowSafeDisconnect(FALSE, "wf1", "t", input, FALSE, FALSE, NoHandlers, NoFault, "returns")

\* Object.entries(handlers) accepts any key: an override for a kind outside
\* the protocol table, or for an event connectSocket listens to itself.
OverrideKeysOutsideTable == {"custom_event", "workflow_log"}

runWorkflowOverride(kind) ==
  runWorkflow(FALSE, "wf1", "t", InputOfTests, FALSE, FALSE, HandlerTable({kind}, {}, {}), NoFault, "returns")

runWorkflowSafeDisconnectOverride(kind) ==
  runWorkflowSafeDisconnect(FALSE, "wf1", "t", InputOfTests, FALSE, FALSE, HandlerTable({kind}, {}, {}), NoFault, "returns")

BridgeNext ==
  \/ \E u \in UrlArgs, t \in BOOLEAN, c \in BOOLEAN, eh \in EventHandlerChoices,
        hf \in FeedbackHandlers :
       connectSocket(u, t, c, eh, hf)
  \/ \E u \in UrlArgs, t \in BOOLEAN, eh \in EventHandlerChoices,
        hf \in FeedbackHandlers :
       connectSocketAwait(u, t, eh, hf)
  \/ TransportConnect
  \/ \E input \in InputValues : runWorkflowInput(input)
  \/ \E input \in InputValues : runWorkflowSafeDisconnectInput(input)
  \/ \E k \in OverrideKeysOutsideTable : runWorkflowOverride(k)
  \/ \E k \in OverrideKeysOutsideTable : runWorkflowSafeDisconnectOverride(k)
  \/ \E k \in EventKinds :
       \E outs \in [1..Len(socket.listeners[k]) -> Outcomes] :
         ServerEvent(k, outs)
  \/ \E d \in DefaultValues, b \in FeedbackBehaviours, v \in FeedbackValues :
       FeedbackRequest(d, b, v)
  \/ \E i \in 1..MaxPending, o \in {"resolves", "rejects"}, v \in FeedbackValues :
       FeedbackSettle(i, o, v)

BridgeSpec == Init /\ [][BridgeNext]_vars

\* Every revision of runWorkflow that the files hold, on a well-behaved
\* socket: connectSocket, the transport, runWorkflow with valid arguments and
\* every table of functions, the cleanup functions the calls returned and the
\* server's workflow events.
OlderNext ==
  \/ \E u \in UrlArgs, t \in BOOLEAN, c \in BOOLEAN, eh \in EventHandlerChoices :
       connectSocket(u, t, c, eh, "defaultFeedbackRequestHandler")
  \/ \E u \in UrlArgs, t \in BOOLEAN, eh \in EventHandlerChoices :
       connectSocketAwait(u, t, eh, "defaultFeedbackRequestHandler")
  \/ TransportConnect
  \/ \E reason \in DisconnectReasons : TransportDisconnect(reason)
  \/ CallerDisconnect
  \/ \E h \in FnTables :
       runWorkflow(FALSE, "wf1", "t", InputOfTests, FALSE, FALSE, h, NoFault, "returns")
  \/ \E h \in FnTables :
       runWorkflowSafeDisconnect(FALSE, "wf1", "t", InputOfTests, FALSE, FALSE, h, NoFault, "returns")
  \/ \E p \in BOOLEAN, h \in FnTables :
       runWorkflowCleanup("wf1", "t", InputOfTests, p, h)
  \/ \E p \in BOOLEAN, h \in FnTables :
       runWorkflowReconnect("wf1", "t", InputOfTests, p, h)
  \/ \E i \in 1..MaxRuns : Cleanup(i)
  \/ \E k \in EventKinds :
       \E outs \in [1..Len(socket.listeners[k]) -> Outcomes] :
         ServerEvent(k, outs)

OlderSpec == InitWith(RunRevs \cup OlderRunRevs, {NoWrapper}) /\ [][OlderNext]_vars

\* A generated workflow function on its own socket or on the caller's:
\* connectSocket, the transport, the function body and the server's workflow
\* events.
WrapperNext ==
  \/ \E u \in UrlArgs, t \in BOOLEAN, c \in BOOLEAN :
       connectSocket(u, t, c, {}, "defaultFeedbackRequestHandler")
  \/ \E u \in UrlArgs, t \in BOOLEAN :
       connectSocketAwait(u, t, {}, "defaultFeedbackRequestHandler")
  \/ TransportConnect
  \/ \E msg \in ConnectErrorMessages : TransportConnectError(msg)
  \/ TransportReconnectFailed
  \/ ConnectionTimeout
  \/ \E reason \in DisconnectReasons : TransportDisconnect(reason)
  \/ \E t \in {"", "t"} : generatedWorkflow(t)
  \/ generatedWorkflowConnectFailed
  \/ \E k \in EventKinds :
       \E outs \in [1..Len(socket.listeners[k]) -> Outcomes] :
         ServerEvent(k, outs)

\* A server that received run_workflow ends the run: run_complete arrives at
\* a socket that stays connected, and its handler returns.
RunCompleteDelivered ==
  \E outs \in [1..Len(socket.listeners["run_complete"]) -> {"returns"}] :
    ServerEvent("run_complete", outs)

\* setTimeout callbacks run, the function body continues once the awaited
\* promise has settled, and the server ends the run.
FairWrapperSpec ==
  /\ InitWith(RunRevs, {WrapperCalled(i) : i \in BOOLEAN})
  /\ [][WrapperNext]_vars
  /\ WF_vars(ConnectionTimeout)
  /\ WF_vars(\E t \in {"", "t"} : generatedWorkflow(t))
  /\ WF_vars(generatedWorkflowConnectFailed)
  /\ WF_vars(RunCompleteDelivered)

-----------------------------------------------------------------------------
(* Properties *)

\* A listener registered by runWorkflow was invoked in the latest dispatch.
RunHandlerInvoked == \E i \in 1..Len(last.invoked) : last.invoked[i].run >= 1

\* C1: for each terminal event kind delivered after runWorkflow registered
\* its handlers, once the resolved handler has returned or thrown,
\* socket.disconnect() is called exactly once for that event.
C1_TerminalDisconnectsOnce ==
  (last.op = "dispatch" /\ last.kind \in TerminalEvents /\ RunHandlerInvoked)
    => last.disc = 1

\* C2: dispatching a non-terminal event kind to a handler registered by
\* runWorkflow never calls socket.disconnect() and leaves the connection up,
\* whether the handler returns or throws.
C2_NonTerminalNeverDisconnects ==
  (last.op = "dispatch" /\ last.kind \in NonTerminalEvents /\ RunHandlerInvoked)
    => (last.disc = 0 /\ last.cause = "none" /\ socket.connected)

C2_Witness ==
  /\ last.op = "dispatch"
  /\ last.kind = "stream_output"
  /\ runRev = "part_013"
  /\ \E i \in 1..Len(last.invoked) :
       last.invoked[i].run >= 1 /\ last.invoked[i].out = "throws"

\* C3: an exception thrown by a handler that runWorkflow registered is caught
\* and logged with the event kind and does not reach the transport; every
\* delivered event reaches the handlers registered for it; and a run_complete
\* delivered to its handler disconnects the connection.
C3_ThrowingHandlerIsContained ==
  [][(last'.op = "dispatch" /\ Len(socket.listeners[last'.kind]) > 0
        /\ \A i \in 1..Len(socket.listeners[last'.kind]) :
              socket.listeners[last'.kind][i].run >= 1)
       => /\ ~last'.leaked
          /\ Len(last'.invoked) = Len(socket.listeners[last'.kind])
          /\ \A i \in 1..Len(last'.invoked) :
               last'.invoked[i].out = "throws"
                 => \E j \in 1..Len(last'.logged) : last'.logged[j] = last'.kind
          /\ last'.kind = "run_complete" => ~socket'.connected]_vars

\* C4: after runWorkflow was called with a custom run_complete handler, a
\* run_complete event delivered while the handle has not been disconnected
\* invokes that handler exactly once and never the profile's handler, also
\* when connectSocket had registered a run_complete handler of its own.
C4_CustomRunCompleteOnce ==
  (/\ last.op = "dispatch"
   /\ last.kind = "run_complete"
   /\ "run_complete" \in lastRun.overrides
   /\ last.tornAt < lastRun.n)
    => /\ Cardinality({i \in 1..Len(last.invoked) :
                         /\ last.invoked[i].id = "override"
                         /\ last.invoked[i].run = lastRun.n}) = 1
       /\ \A i \in 1..Len(last.invoked) : last.invoked[i].id # "profile"

C4_Witness ==
  /\ last.op = "dispatch"
  /\ last.kind = "run_complete"
  /\ "run_complete" \in lastRun.overrides
  /\ last.tornAt < lastRun.n
  /\ lastRun.n = 2
  /\ connRev = "connect_ts"

\* C5: runWorkflow called with a null socket, an empty workflowId or an empty
\* auth token throws a WorkflowError, emits nothing and leaves the listeners
\* of the socket as they were.
C5_InvalidCallHasNoEffect ==
  [][(last'.op = "call"
        /\ (last'.socketNull \/ last'.workflowId = "" \/ last'.authToken = ""))
       => /\ last'.thrown # "none"
          /\ ~last'.emitted
          /\ socket' = socket]_vars

C5_Witness ==
  /\ last.op = "call"
  /\ ~last.socketNull
  /\ last.workflowId = "wf1"
  /\ last.authToken = ""
  /\ last.thrown = "Authentication token is required"
  /\ promise.state = "resolved"

\* C6: disconnect() on a handle returned by connectSocket removes all
\* registered listeners, so that after a disconnect by the caller or by a
\* terminal event no listener registered before it remains and no event
\* delivered later invokes one.
C6_DisconnectRemovesListeners ==
  /\ tornAt >= 0
       => \A n \in Names : \A i \in 1..Len(socket.listeners[n]) :
            socket.listeners[n][i].run > tornAt
  /\ (last.op = "dispatch" /\ last.tornAt >= 0)
       => \A i \in 1..Len(last.invoked) : last.invoked[i].run > last.tornAt

C8_ConnectErrorRejectsWithCause ==
  /\ connectErrors >= maxConnectionAttempts => promise.state = "rejected"
  /\ (connRev = "part_012" /\ connectErrors >= 1) => promise.state = "rejected"
  /\ (promise.state = "rejected"
        /\ promise.reason \in {"authentication", "attempts", "transport_error"})
       => promise.cause \in ConnectErrorMessages

\* C9: whenever the connectSocket promise rejects, the socket has been
\* disconnected and its listeners removed, and the transport does not
\* connect later.
C9_RejectionCleansUp ==
  (promise.state = "rejected" /\ promise.reason # "io")
    => /\ socket.listeners = NoListeners
       /\ ~socket.active
       /\ ~socket.connected

\* C10: every disconnect of the handle, whoever initiates it, invokes
\* handleDisconnection with the disconnect reason.
C10_DisconnectNotifiesCaller ==
  last.cause # "none" => last.hd = << last.cause >>

\* C11: when the transport reports reconnect_failed to the listener that
\* connectSocket registered, the code force-closes the transport with
\* socket.disconnect(), and a promise that is still pending rejects with the
\* reconnect-exhausted error.
C11_ReconnectFailedClosesAndSurfaces ==
  [][(last'.op = "reconnect_failed"
        /\ HasListener(socket.listeners, "reconnect_failed", "onReconnectFailed"))
       => /\ last'.disc >= 1
          /\ ~socket'.active
          /\ promise.state = "pending"
               => (promise'.state = "rejected"
                   /\ promise'.reason = "reconnect_failed")]_vars

\* C12: disconnect() on the handle never throws and is idempotent: after any
\* call the handle is disconnected, closed and free of listeners, and one
\* more call leaves it exactly so.
C12_DisconnectIdempotent ==
  [][last'.op = "disconnect"
       => /\ ~socket'.connected
          /\ ~socket'.active
          /\ socket'.listeners = NoListeners
          /\ disconnect(World(socket')).socket = socket']_vars

\* C13 as stated: when emitting the run command throws, the resolved
\* run_error handler (the override, else the profile's) is invoked with the
\* synthesized payload, and no WorkflowError is raised while such a handler
\* exists.
C13_EmitFailureInvokesResolvedHandler ==
  (last.op = "call" /\ last.fault.op = "emit")
    => /\ Len(last.invoked) = 1
       /\ last.invoked[1].id \in {"override", "profile"}
       /\ last.thrown # "Failed to start workflow execution"

\* C13 amended: when emitting the run command throws, a run_error handler
\* given by the caller is invoked synchronously, once, and no WorkflowError
\* is raised; without one no handler is invoked (the profile's run_error is
\* not used) and runWorkflow throws the WorkflowError.
C13_EmitFailureInvokesCallerHandler ==
  (last.op = "call" /\ last.fault.op = "emit")
    => IF "run_error" \in DOMAIN last.handlers
            /\ last.handlers["run_error"] = "fn"
         THEN /\ Len(last.invoked) = 1
              /\ last.invoked[1].id = "override"
              /\ last.thrown # "Failed to start workflow execution"
              /\ last.invoked[1].out = "returns" => last.thrown = "none"
         ELSE /\ last.invoked = << >>
              /\ last.thrown = "Failed to start workflow execution"

C13_Witness ==
  /\ last.op = "call"
  /\ last.fault.op = "emit"
  /\ Len(last.invoked) = 1
  /\ last.invoked[1].out = "returns"
  /\ last.prettyLogs

C15_RegistrationFailureIsContained ==
  (last.op = "call" /\ last.fault.op \in {"removeAllListeners", "on"})
    => /\ last.thrown = "none"
       /\ last.emitted
       /\ last.regFailed = {last.fault.kind}
       /\ \A k \in (ProfileKeys(runRev, lastRun.profile)
                      \cup {x \in DOMAIN last.handlers : last.handlers[x] = "fn"})
                   \ {last.fault.kind} :
            /\ Len(socket.listeners[k]) = 1
            /\ socket.listeners[k][1].run = lastRun.n

C15_Witness ==
  /\ last.op = "call"
  /\ last.fault = [op |-> "removeAllListeners", kind |-> "run_complete"]
  /\ last.emitted
  /\ Len(socket.listeners["stream_output"]) = 1
  /\ socket.listeners["stream_output"][1].run = 1

\* C16: after any sequence of runWorkflow calls, every kind of the latest
\* run's handler table has exactly one listener on a handle that has not
\* been disconnected since, and an event of such a kind causes exactly one
\* handler invocation.
C16_OneListenerPerKind ==
  /\ (lastRun.n >= 1 /\ tornAt < lastRun.n)
       => \A k \in ProfileKeys(runRev, lastRun.profile) \cup lastRun.overrides :
            Len(socket.listeners[k]) = 1
  /\ (last.op = "dispatch" /\ lastRun.n >= 1 /\ last.tornAt < lastRun.n
        /\ last.kind \in ProfileKeys(runRev, lastRun.profile)
                           \cup lastRun.overrides)
       => Len(last.invoked) = 1

C16_Witness ==
  /\ last.op = "dispatch"
  /\ last.kind = "stream_output"
  /\ lastRun.n = 2
  /\ connRev = "part_012"
  /\ Len(last.invoked) = 1

\* C17: for every protocol event kind and each profile, with or without
\* overrides, a runWorkflow call that returns has registered a listener of
\* its own for that kind.
C17_EveryProtocolKindHasHandler ==
  (last.op = "call" /\ last.thrown = "none" /\ last.fault = NoFault)
    => \A k \in ProtocolKinds :
         \E i \in 1..Len(socket.listeners[k]) :
           socket.listeners[k][i].run = lastRun.n

\* C18: for every protocol event kind the listener runWorkflow registers
\* runs the caller's override when it is present and neither null nor
\* undefined, and the selected profile's handler otherwise; a null or
\* undefined override does not make runWorkflow throw.
C18_OverrideElseProfile ==
  (last.op = "call" /\ last.fault = NoFault
     /\ ~last.socketNull /\ last.workflowId # "" /\ last.authToken # "")
    => /\ last.thrown = "none"
       /\ \A k \in ProtocolKinds :
            /\ Len(socket.listeners[k]) = 1
            /\ socket.listeners[k][1].run = lastRun.n
            /\ socket.listeners[k][1].id =
                 IF k \in DOMAIN last.handlers
                      /\ last.handlers[k] \notin {"null", "undefined"}
                   THEN "override" ELSE "profile"

\* C19: the base profile is pretty whenever prettyLogs is true, also with
\* verbose; verbose when only verbose is true; quiet otherwise.
C19_ProfilePrecedence ==
  (last.op = "call" /\ last.thrown = "none")
    => /\ last.prettyLogs => lastRun.profile = "pretty"
       /\ (~last.prettyLogs /\ last.verbose) => lastRun.profile = "verbose"
       /\ (~last.prettyLogs /\ ~last.verbose) => lastRun.profile = "quiet"

C19_Witness ==
  /\ last.op = "call"
  /\ last.thrown = "none"
  /\ last.prettyLogs
  /\ last.verbose
  /\ lastRun.profile = "pretty"

\* C20: an override whose key is no kind of the selected profile is
\* registered as the only listener of exactly that event name, replacing what
\* was registered for it, and an exception it throws does not reach the
\* transport.
C20_UnknownOverrideRegistered ==
  /\ (last.op = "call" /\ last.thrown = "none" /\ last.fault = NoFault)
       => /\ \A k \in {x \in DOMAIN last.handlers : last.handlers[x] = "fn"}
                        \ ProfileKeys(runRev, lastRun.profile) :
               socket.listeners[k]
                 = << Listener("override", lastRun.n, TRUE,
                               runRev = "part_013" /\ k \in TerminalEvents) >>
          /\ \A k \in EventKinds \ (DOMAIN last.handlers) :
               \A i \in 1..Len(socket.listeners[k]) :
                 socket.listeners[k][i].run = lastRun.n
                   => socket.listeners[k][i].id # "override"
  /\ (last.op = "dispatch" /\ last.kind = "custom_event")
       => ~last.leaked

C20_Witness ==
  /\ last.op = "dispatch"
  /\ last.kind = "custom_event"
  /\ lastRun.n = 2
  /\ Len(last.invoked) = 1
  /\ last.invoked[1] = [id |-> "override", run |-> 2, out |-> "throws"]

\* C21: in every runWorkflow call that emits run_workflow, every kind of the
\* call's handler table already has the call's listener when the emit
\* executes, so an event of such a kind that arrives afterwards, on a handle
\* not disconnected since, reaches a listener of that call.
C21_RegisteredBeforeEmit ==
  /\ (last.op = "call" /\ last.emitted)
       => RegisteredKinds(runRev, lastRun.profile, last.handlers)
            \subseteq last.sent.atEmit
  /\ (last.op = "dispatch" /\ lastRun.n >= 1 /\ last.tornAt < lastRun.n
        /\ last.kind \in ProfileKeys(runRev, lastRun.profile)
                           \cup lastRun.overrides)
       => \E i \in 1..Len(last.invoked) : last.invoked[i].run = lastRun.n

C21_Witness ==
  /\ last.op = "call"
  /\ last.emitted
  /\ lastRun.n = 2
  /\ last.prettyLogs
  /\ "custom_event" \in last.sent.atEmit
  /\ "run_complete" \in last.sent.atEmit

\* C22: when connectSocket has returned a socket, and whenever its promise is
\* resolved and the handle has not been disconnected, the socket carries the
\* listeners connectSocket installs: handleDisconnection on 'disconnect',
\* handleLog on 'workflow_log', handleFeedback on 'feedback_request' and one
\* listener for each entry of options.eventHandlers; also for a socket that
\* reports connected when it is created.
C22_ResolvedSocketCarriesListeners ==
  /\ (last.op = "connectSocket" /\ promise.state # "rejected")
       => /\ HasListener(socket.listeners, "disconnect", "handleDisconnection")
          /\ HasListener(socket.listeners, "workflow_log", "handleLog")
          /\ HasListener(socket.listeners, "feedback_request", "handleFeedback")
          /\ \A e \in last.conn.eventHandlers :
               HasListener(socket.listeners, e, "eventHandlers")
  /\ (promise.state = "resolved" /\ tornAt = -1)
       => /\ HasListener(socket.listeners, "disconnect", "handleDisconnection")
          /\ HasListener(socket.listeners, "workflow_log", "handleLog")
          /\ HasListener(socket.listeners, "feedback_request", "handleFeedback")

\* C23: a feedback_request whose callback returns a value, or whose promise
\* resolves, is answered by exactly one feedback_response whose input is the
\* returned or resolved value, or the request's defaultValue when that value
\* is empty.
C23_FeedbackAnsweredWithValueOrDefault ==
  (last.op = "feedback" /\ last.fb.outcome \in {"value", "resolves"})
    => last.fb.response
         = << [input |-> IF last.fb.value = "" THEN last.fb.defaultValue
                         ELSE last.fb.value] >>

\* C24: when the feedback callback throws or its promise rejects, one
\* feedback_response with a null input is still emitted and the exception
\* does not escape the listener.
C24_FeedbackFailureStillAnswered ==
  (last.op = "feedback" /\ last.fb.outcome \in {"throws", "rejects"})
    => /\ Len(last.fb.response) = 1
       /\ last.fb.response[1].input = "null"
       /\ ~last.leaked

\* C25: while a promise returned by the feedback callback is pending, the
\* feedback_request listener has returned, and a server event such as
\* stream_output is dispatched to its listeners without waiting for the
\* promise.
C25_PendingFeedbackDoesNotBlockDispatch ==
  /\ Len(feedback.pending) > 0 => ~feedback.running
  /\ (Len(feedback.pending) > 0 /\ socket.connected
        /\ Len(socket.listeners["stream_output"]) \in 1..MaxListeners)
       => ENABLED ServerEvent("stream_output",
                              [i \in 1..Len(socket.listeners["stream_output"])
                                 |-> "returns"])

C25_Witness ==
  /\ last.op = "dispatch"
  /\ last.kind = "stream_output"
  /\ Len(feedback.pending) > 0
  /\ feedback.handler = "custom"
  /\ RunHandlerInvoked

\* C26: the url connectSocket hands to the transport is the endpoint argument
\* with 'https://' put in front when the argument starts with neither
\* 'http://' nor 'https://', and the argument itself otherwise; a call
\* without the argument connects to 'https://api.pocketflow.ai'.
C26_EndpointNormalised ==
  last.op = "connectSocket"
    => LET endpoint == IF last.conn.url = "undefined" THEN "api.pocketflow.ai"
                       ELSE last.conn.url
           hasScheme == \/ (Len(endpoint) >= 7 /\ SubSeq(endpoint, 1, 7) = "http://")
                        \/ (Len(endpoint) >= 8 /\ SubSeq(endpoint, 1, 8) = "https://")
       IN /\ hasScheme => last.conn.ioUrl = endpoint
          /\ ~hasScheme => last.conn.ioUrl = "https://" \o endpoint
          /\ last.conn.url = "undefined"
               => last.conn.ioUrl = "https://api.pocketflow.ai"
          /\ last.conn.url = "example.com"
               => last.conn.ioUrl = "https://example.com"
          /\ last.conn.url = "http://example.com"
               => last.conn.ioUrl = "http://example.com"

C26_Witness ==
  /\ last.op = "connectSocket"
  /\ last.conn.url = "http://example.com"
  /\ last.conn.ioUrl = "http://example.com"
  /\ promise.state = "pending"

\* C27: a runWorkflow call that passes validation and whose emit does not
\* throw emits run_workflow with flowId equal to the workflowId argument,
\* token equal to the authToken argument and input equal to the input
\* argument, whatever the input value.
C27_RunCommandCarriesArguments ==
  (last.op = "call" /\ last.thrown = "none" /\ last.fault.op # "emit")
    => /\ last.emitted
       /\ last.sent.payload = [flowId |-> last.workflowId, token |-> last.authToken,
                          input |-> last.sent.input]

\* C28: connectSocket creates the transport with autoConnect off and starts
\* the connection attempt only when the listeners for connect, disconnect,
\* workflow_log, feedback_request and the caller's event handlers are
\* attached.
C28_ListenersAttachedBeforeConnect ==
  (last.op = "connectSocket" /\ promise.state # "rejected")
    => /\ ~last.conn.autoConnect
       /\ ({"connect", "disconnect", "workflow_log", "feedback_request"}
             \cup last.conn.eventHandlers) \subseteq last.conn.attached

\* C29: once a run has ended the connection is disconnected: after a
\* run_complete, run_error or workflow_error reached the run's handler, and
\* after a runWorkflow call whose emit of the run command failed.
C29_EndedRunIsDisconnected ==
  /\ (last.op = "dispatch" /\ last.kind \in TerminalEvents /\ RunHandlerInvoked)
       => ~socket.connected
  /\ (last.op = "call" /\ last.fault.op = "emit") => ~socket.connected

\* C30: when two runs were started on one handle and listeners of both are
\* registered, a terminal event that reaches a run's handler disconnects the
\* handle and closes it, so that no further event is delivered to either run.
C30_TerminalEventEndsBothRuns ==
  [][(/\ last'.op = "dispatch"
      /\ last'.kind \in TerminalEvents
      /\ lastRun.n = 2
      /\ tornAt < 1
      /\ \E k \in EventKinds : \E i \in 1..Len(socket.listeners[k]) :
           socket.listeners[k][i].run = 1
      /\ \E i \in 1..Len(last'.invoked) : last'.invoked[i].run >= 1)
       => /\ ~socket'.connected
          /\ ~socket'.active
          /\ last'.disc >= 1]_vars

\* C31: a connect_error whose message indicates an authentication failure
\* rejects the connectSocket promise in the same step, whatever the number of
\* connect errors before it, with an error that tells the authentication
\* failure and is not the timeout error.
C31_AuthenticationErrorRejectsAtOnce ==
  [][(last'.op = "connect_error" /\ last'.kind = "authentication")
       => /\ promise'.state = "rejected"
          /\ "authentication" \in {promise'.reason, promise'.cause}
          /\ promise'.reason # "timeout"
          /\ ~connectionTimeout']_vars

C31_Witness ==
  /\ last.op = "connect_error"
  /\ last.kind = "authentication"
  /\ connectErrors >= 2
  /\ promise.state = "rejected"
  /\ promise.reason = "authentication"

\* C32: when the endpoint is not a valid URL, or when constructing the
\* transport throws, connectSocket returns a promise rejected with a
\* SocketConnectionError ("Invalid socket server URL", respectively "Failed to
\* create socket connection") and leaves no connection attempt running.
C32_InvalidEndpointRejects ==
  last.op = "connectSocket"
    => /\ last.conn.invalidUrlLogged
            => /\ promise.state = "rejected"
               /\ promise.reason = "Invalid socket server URL"
               /\ ~socket.active
               /\ ~connectionTimeout
       /\ (last.conn.ioThrew /\ ~last.conn.invalidUrlLogged)
            => /\ promise.state = "rejected"
               /\ promise.reason = "Failed to create socket connection"
               /\ ~socket.active
               /\ ~connectionTimeout

\* C34: the handler table is unique per kind and the last registration wins:
\* after a later runWorkflow call on the same socket the only listeners of
\* runs on any event kind are those of the latest call, and an event invokes
\* no callback that an earlier run supplied, also for the kinds outside the
\* later run's table.
C34_LastRegistrationWins ==
  lastRun.n >= 2
    => /\ \A k \in EventKinds : \A i \in 1..Len(socket.listeners[k]) :
            socket.listeners[k][i].run >= 1
              => socket.listeners[k][i].run = lastRun.n
       /\ last.op = "dispatch"
            => \A i \in 1..Len(last.invoked) :
                 last.invoked[i].run >= 1 => last.invoked[i].run = lastRun.n

\* The events connectSocket serves itself and the claim names (the model
\* carries no 'error' event).
ConnectionEvents == {"connect", "disconnect", "workflow_log", "feedback_request"}

\* C37 as stated: the listeners connectSocket installed for connect,
\* disconnect, workflow_log and feedback_request are unchanged by every
\* runWorkflow call.
C37_ConnectionListenersNeverChanged ==
  [][last'.op = "call"
       => \A k \in ConnectionEvents : socket'.listeners[k] = socket.listeners[k]]_vars

\* C37, amended: runWorkflow changes listeners only for the kinds of the
\* selected profile and of the caller's overrides, so the listeners
\* connectSocket installed for connect, disconnect, workflow_log and
\* feedback_request are unchanged by every call whose overrides name none of
\* these events; an override keyed by one of them replaces that listener.
C37_OnlyTableKindsChange ==
  [][last'.op = "call"
       => LET touched == RegisteredKinds(runRev,
                                         SelectProfile(last'.prettyLogs,
                                                       last'.verbose),
                                         last'.handlers)
          IN /\ \A k \in Names \ touched :
                  socket'.listeners[k] = socket.listeners[k]
             /\ \A k \in ConnectionEvents \cap touched :
                  /\ Truthy(last'.handlers, k)
                  /\ \A i \in 1..Len(socket'.listeners[k]) :
                       socket'.listeners[k][i].run = lastRun'.n]_vars

C37_Witness ==
  /\ last.op = "call"
  /\ last.thrown = "none"
  /\ lastRun.n = 2
  /\ Truthy(last.handlers, "custom_event")
  /\ HasListener(socket.listeners, "feedback_request", "handleFeedback")
  /\ HasListener(socket.listeners, "workflow_log", "handleLog")
  /\ HasListener(socket.listeners, "disconnect", "handleDisconnection")

\* C38: a feedback_response is emitted only while the connection is still
\* connected: when the promise of a feedback callback resolves after the
\* connection was torn down, nothing is emitted on the disconnected socket.
C38_NoResponseAfterTeardown ==
  (last.op = "feedback" /\ last.fb.response # << >>) => socket.connected

\* C33: runWorkflow returns a cleanup function, and once that function has
\* been called no listener the run registered is left on the socket and an
\* event delivered afterwards invokes none of the run's handlers.
C33_CleanupRemovesRunListeners ==
  /\ (last.op = "call" /\ last.thrown = "none") => last.sent.returned = "cleanup"
  /\ \A i \in 1..Len(cleanups) :
       cleanups[i].called
         => /\ \A k \in Names : \A j \in 1..Len(socket.listeners[k]) :
                 socket.listeners[k][j].run # cleanups[i].run
            /\ last.op = "dispatch"
                 => \A j \in 1..Len(last.invoked) :
                      last.invoked[j].run # cleanups[i].run

\* The state of the connection handle as the caller and the transport see
\* it: Connected while socket.connected; Failed once the promise of
\* connectSocket has rejected; Connecting while the transport is trying
\* (socket.active); Disconnected otherwise.
HandleState(s, p) ==
  IF s.connected THEN "Connected"
  ELSE IF p.state = "rejected" THEN "Failed"
  ELSE IF s.active THEN "Connecting"
  ELSE "Disconnected"

\* C35: every change of the handle's state is one of the edges Disconnected
\* to Connecting, Connecting to Connected, Connected to Disconnected and
\* Connected to Failed; in particular a handle that failed or was torn down
\* does not become Connected without a new connect attempt.
C35_OnlyLifecycleEdges ==
  [][HandleState(socket', promise') # HandleState(socket, promise)
       => << HandleState(socket, promise), HandleState(socket', promise') >>
            \in {<< "Disconnected", "Connecting" >>,
                 << "Connecting", "Connected" >>,
                 << "Connected", "Disconnected" >>,
                 << "Connected", "Failed" >>}]_vars

\* C36: a generated workflow function that created its own socket keeps the
\* connection open until run_complete or run_error has been delivered and
\* disconnects only afterwards, so that the promise it returned eventually
\* resolves with the run_complete data or rejects with the run_error message.
C36_WrapperSettlesBeforeDisconnect ==
  /\ []((wrapper.isInternalSocket /\ wrapper.disconnected)
          => wrapper.promise \in {"resolved", "rejected"})
  /\ (wrapper.isInternalSocket /\ wrapper.pc = "returned")
       ~> (wrapper.promise \in {"resolved", "rejected"})

====
